---- MODULE Spec2Model ----
(***************************************************************************)
(* Model of the SSH log dashboard (src/app.py): main() reads the uploaded  *)
(* CSV into a DataFrame and display_dashboard(df) filters it, computes the *)
(* KPIs, the top-N SourceIP rankings and the hourly time series.           *)
(*                                                                         *)
(* A DataFrame is [columns |-> which of the four columns the code reads    *)
(* are present, rows |-> sequence of rows]; a row is a record with one     *)
(* cell per such column (the cell of an absent column is the missing       *)
(* marker, which the code never reads).  Other columns of the file are     *)
(* carried along untouched and are not modelled.                           *)
(* Text cells are strings; a Timestamp cell is <<mon, day, H, M, S>> for   *)
(* the text "mon day H:M:S", or a tagged value after pd.to_datetime.       *)
(***************************************************************************)
EXTENDS Integers, Sequences, FiniteSets, TLC

VARIABLES uploaded_file, df, event_choice, ip_choices, df_filtered,
          warning, metrics, top20, top10, attacks_by_time, info

vars == <<uploaded_file, df, event_choice, ip_choices, df_filtered,
          warning, metrics, top20, top10, attacks_by_time, info>>

----------------------------------------------------------------------------
(* Bounds of the model *)

MaxRows == 2
MaxFilterRows == 3
MaxKpiRows == 3
MaxRankRows == 4
MaxTimeRows == 3
MaxN == 2

(* Program constants *)

Top20 == 20
Top10 == 10
SecondsPerHour == 3600
SecondsPerDay == 24 * SecondsPerHour

----------------------------------------------------------------------------
(* Cells *)

Columns == {"EventId", "SourceIP", "User", "Timestamp"}

\* an empty CSV field, as text in the uploaded file
EmptyField == ""
EmptyStamp == <<"", 0, 0, 0, 0>>

\* the missing value (NaN) pd.read_csv puts in place of an empty field
NaN == "<NaN>"
NaNStamp == <<"<NaN>", 0, 0, 0, 0>>

\* the missing datetime (NaT) pd.to_datetime(errors="coerce") produces
NaT == <<"<NaT>", 0, 0, 0, 0>>

Datetime(secs) == <<"datetime64", secs, 0, 0, 0>>

IsDatetime(c) == c[1] = "datetime64"

\* Series.astype(str) on one cell: a missing value becomes the text "nan"
astype_str(v) == IF v = NaN THEN "nan" ELSE v

\* Series.isna() on one cell
isna(v) == v = NaN

isna_stamp(c) == c = NaNStamp \/ c = NaT

\* (mutation) the presence test that always succeeds
has_column_always(frame, col) == TRUE

\* "col" in df.columns
has_column(frame, col) == col \in frame.columns

\* DataFrame.empty
empty(frame) == frame.rows = <<>>

----------------------------------------------------------------------------
(* Generic helpers *)

RECURSIVE SelectRows(_, _)
\* boolean-mask indexing df[mask]: the rows i with i \in keep, in order
SelectRows(rows, keep) ==
    IF rows = <<>> THEN <<>>
    ELSE LET n == Len(rows)
             init == SelectRows(SubSeq(rows, 1, n - 1), keep)
         IN IF n \in keep THEN Append(init, rows[n]) ELSE init

RECURSIVE SumCounts(_)
SumCounts(pairs) ==
    IF pairs = <<>> THEN 0
    ELSE pairs[1][2] + SumCounts(Tail(pairs))

SetMin(S) == CHOOSE x \in S : \A y \in S : x <= y
SetMax(S) == CHOOSE x \in S : \A y \in S : x >= y

----------------------------------------------------------------------------
(* main(): pd.read_csv(uploaded_file) *)

read_csv_row(r) ==
    [EventId   |-> IF r.EventId = EmptyField THEN NaN ELSE r.EventId,
     SourceIP  |-> IF r.SourceIP = EmptyField THEN NaN ELSE r.SourceIP,
     User      |-> IF r.User = EmptyField THEN NaN ELSE r.User,
     Timestamp |-> IF r.Timestamp = EmptyStamp THEN NaNStamp ELSE r.Timestamp]

read_csv(file) ==
    [columns |-> file.columns,
     rows    |-> [i \in 1..Len(file.rows) |-> read_csv_row(file.rows[i])]]

----------------------------------------------------------------------------
(* display_dashboard: sidebar widgets *)

\* options of the EventId selectbox
event_options(frame) ==
    IF has_column(frame, "EventId")
    THEN {"Tous"} \cup {astype_str(frame.rows[i].EventId) : i \in 1..Len(frame.rows)}
    ELSE {"Tous"}

\* options of the SourceIP multiselect (astype(str) comes before dropna(),
\* so the text "nan" is an option when a SourceIP is missing)
ips_list(frame) ==
    IF has_column(frame, "SourceIP")
    THEN {astype_str(frame.rows[i].SourceIP) : i \in 1..Len(frame.rows)}
    ELSE {}

----------------------------------------------------------------------------
(* display_dashboard: application of the filters *)

event_mask(frame, choice) ==
    {i \in 1..Len(frame.rows) : astype_str(frame.rows[i].EventId) = choice}

\* (mutation) membership of the raw cell, without astype(str)
ip_mask_raw(frame, choices) ==
    {i \in 1..Len(frame.rows) : frame.rows[i].SourceIP \in choices}

ip_mask(frame, choices) ==
    {i \in 1..Len(frame.rows) : astype_str(frame.rows[i].SourceIP) \in choices}

\* (mutation) the EventId filter applied without the column test
event_filter_active_unguarded(frame, choice) == choice # "Tous"

event_filter_active(frame, choice) ==
    choice # "Tous" /\ has_column(frame, "EventId")

ip_filter_active(frame, choices) ==
    choices # {} /\ has_column(frame, "SourceIP")

filter_event(frame, choice) ==
    IF event_filter_active(frame, choice)
    THEN [frame EXCEPT !.rows = SelectRows(frame.rows, event_mask(frame, choice))]
    ELSE frame

filter_ip(frame, choices) ==
    IF ip_filter_active(frame, choices)
    THEN [frame EXCEPT !.rows = SelectRows(frame.rows, ip_mask(frame, choices))]
    ELSE frame

apply_filters(frame, choice, choices) ==
    filter_ip(filter_event(frame, choice), choices)

----------------------------------------------------------------------------
(* display_dashboard: KPIs *)

column(frame, col) == [i \in 1..Len(frame.rows) |-> frame.rows[i][col]]

\* (mutation) nunique(dropna=False): the missing value counts as a value
nunique_keepna(series) ==
    Cardinality({series[i] : i \in 1..Len(series)})

\* Series.nunique(): number of distinct values, missing values left out
nunique(series) ==
    Cardinality({series[i] : i \in {j \in 1..Len(series) : ~isna(series[j])}})

kpis(frame) ==
    <<Len(frame.rows),
      IF has_column(frame, "SourceIP") THEN nunique(column(frame, "SourceIP")) ELSE 0,
      IF has_column(frame, "User") THEN nunique(column(frame, "User")) ELSE 0>>

----------------------------------------------------------------------------
(* display_dashboard: top-N of the source addresses *)

count_of(series, v) == Cardinality({i \in 1..Len(series) : series[i] = v})

\* Series.value_counts(): one (value, count) pair per distinct non-missing
\* value, sorted by count descending.  The order among equal counts is left
\* to the sort, so every order the sort may produce is a possible result.
value_counts(series) ==
    LET values == {series[i] : i \in {j \in 1..Len(series) : ~isna(series[j])}}
        k == Cardinality(values)
        orders == {f \in [1..k -> values] :
                     /\ \A a, b \in 1..k : a # b => f[a] # f[b]
                     /\ \A a, b \in 1..k :
                          a < b => count_of(series, f[a]) >= count_of(series, f[b])}
    IN {[a \in 1..k |-> <<f[a], count_of(series, f[a])>>] : f \in orders}

\* (mutation) no truncation
head_all(s, n) == s

\* head(n): the first n entries
head(s, n) == IF Len(s) <= n THEN s ELSE SubSeq(s, 1, n)

----------------------------------------------------------------------------
(* display_dashboard: hourly time series *)

MonthDays ==
    [Jan |-> 31, Feb |-> 28, Mar |-> 31, Apr |-> 30, May |-> 31, Jun |-> 30,
     Jul |-> 31, Aug |-> 31, Sep |-> 30, Oct |-> 31, Nov |-> 30, Dec |-> 31]

MonthOrder ==
    <<"Jan", "Feb", "Mar", "Apr", "May", "Jun",
      "Jul", "Aug", "Sep", "Oct", "Nov", "Dec">>

RECURSIVE DaysBefore(_)
\* days of the months before month number m (the default year 1900 is not leap)
DaysBefore(m) ==
    IF m = 1 THEN 0 ELSE DaysBefore(m - 1) + MonthDays[MonthOrder[m - 1]]

MonthNumber(mon) == CHOOSE m \in 1..12 : MonthOrder[m] = mon

\* one cell under format "%b %d %H:%M:%S" with errors="coerce": seconds since
\* 1900-01-01 00:00:00 (no year in the format), NaT when it does not match
strptime(c) ==
    IF /\ c[1] \in DOMAIN MonthDays
       /\ c[2] >= 1 /\ c[2] <= MonthDays[c[1]]
       /\ c[3] >= 0 /\ c[3] <= 23
       /\ c[4] >= 0 /\ c[4] <= 59
       /\ c[5] >= 0 /\ c[5] <= 59
    THEN Datetime((DaysBefore(MonthNumber(c[1])) + c[2] - 1) * SecondsPerDay
                  + c[3] * SecondsPerHour + c[4] * 60 + c[5])
    ELSE NaT

\* df_time["Timestamp"] = pd.to_datetime(df_time["Timestamp"], ...)
to_datetime(frame) ==
    [frame EXCEPT !.rows =
        [i \in 1..Len(frame.rows) |->
            [frame.rows[i] EXCEPT !.Timestamp = strptime(frame.rows[i].Timestamp)]]]

\* (mutation) rows without a parsed Timestamp are kept
dropna_keep(frame) == frame

\* df_time.dropna(subset=["Timestamp"])
dropna(frame) ==
    [frame EXCEPT !.rows =
        SelectRows(frame.rows,
                   {i \in 1..Len(frame.rows) : ~isna_stamp(frame.rows[i].Timestamp)})]

\* (mutation) bins that start at the first event instead of on the hour
hour_floor_none(t) == t

\* start of the calendar hour holding t
hour_floor(t) == (t \div SecondsPerHour) * SecondsPerHour

\* (mutation) a group-by on the hour: only the hours that hold an event
resample_size_sparse(frame) ==
    LET ts(i) == frame.rows[i].Timestamp[2]
        starts == {hour_floor(ts(i)) : i \in 1..Len(frame.rows)}
        n == Cardinality(starts)
        start(k) == CHOOSE s \in starts : Cardinality({x \in starts : x < s}) = k - 1
    IN [k \in 1..n |->
          <<start(k),
            Cardinality({i \in 1..Len(frame.rows) : hour_floor(ts(i)) = start(k)})>>]

\* set_index("Timestamp").resample("H").size() on a non-empty frame: one bin
\* per hour from the hour of the first event to the hour of the last
resample_size(frame) ==
    LET ts(i) == frame.rows[i].Timestamp[2]
        times == {ts(i) : i \in 1..Len(frame.rows)}
        first == hour_floor(SetMin(times))
        last == hour_floor(SetMax(times))
        n == (last - first) \div SecondsPerHour + 1
        start(k) == first + (k - 1) * SecondsPerHour
    IN [k \in 1..n |->
          <<start(k),
            Cardinality({i \in 1..Len(frame.rows) :
                           start(k) <= ts(i) /\ ts(i) < start(k) + SecondsPerHour})>>]

----------------------------------------------------------------------------
(* display_dashboard(df): one run of the script on the loaded DataFrame.    *)
(* DataFrames are objects: a name holds a reference, df.copy() and          *)
(* df[mask] and dropna() make a new object, and the column assignment       *)
(* df_time["Timestamp"] = ... writes into the object df_time refers to.     *)

Objects == {"df", "copy1", "masked", "copy2"}

\* (mutation) an assignment instead of a copy: the same object
copy_alias(src, fresh) == src

\* DataFrame.copy(): the reference of the result, a fresh object
copy(src, fresh) == fresh

NotRendered == <<>>

\* (mutation) no early return
no_results_never(view) == FALSE

\* if df_filtered.empty: st.warning(...); return
no_results(view) == empty(view)

display_dashboard(df0, choice, choices) ==
    LET h0 == [o \in Objects |-> df0]
        \* df_filtered = df.copy()
        ref1 == copy("df", "copy1")
        h1 == [h0 EXCEPT ![ref1] = h0["df"]]
        \* df_filtered = df_filtered[...]: a new object when a filter applies
        masked == \/ event_filter_active(h1[ref1], choice)
                  \/ ip_filter_active(h1[ref1], choices)
        ref2 == IF masked THEN "masked" ELSE ref1
        h2 == [h1 EXCEPT ![ref2] = apply_filters(h1[ref1], choice, choices)]
        view == h2[ref2]
        has_ip == has_column(view, "SourceIP")
        has_ts == has_column(view, "Timestamp")
        \* df_time = df_filtered.copy(); df_time["Timestamp"] = pd.to_datetime(...)
        ref3 == copy(ref2, "copy2")
        h3 == [h2 EXCEPT ![ref3] = to_datetime(h2[ref2])]
        \* df_time = df_time.dropna(subset=["Timestamp"])
        df_time == dropna(h3[ref3])
        counts == IF has_ip THEN value_counts(column(view, "SourceIP")) ELSE {<<>>}
    IN IF no_results(view)
       THEN \* st.warning(...); return
            {[df |-> h2["df"], df_filtered |-> h2[ref2], warning |-> TRUE,
              metrics |-> NotRendered, top20 |-> <<>>, top10 |-> <<>>,
              attacks_by_time |-> <<>>, info |-> FALSE]}
       ELSE {[df |-> IF has_ts THEN h3["df"] ELSE h2["df"],
              df_filtered |-> IF has_ts THEN h3[ref2] ELSE h2[ref2],
              warning |-> FALSE,
              metrics |-> kpis(view),
              top20 |-> head(vc, Top20),
              top10 |-> head(vc, Top10),
              attacks_by_time |->
                  IF has_ts /\ ~empty(df_time) THEN resample_size(df_time) ELSE <<>>,
              info |-> has_ts /\ empty(df_time)] : vc \in counts}

----------------------------------------------------------------------------
(* Uploaded CSV files *)

FileRows(cols, vals) ==
    [EventId   : IF "EventId" \in cols THEN vals.EventId ELSE {EmptyField},
     SourceIP  : IF "SourceIP" \in cols THEN vals.SourceIP ELSE {EmptyField},
     User      : IF "User" \in cols THEN vals.User ELSE {EmptyField},
     Timestamp : IF "Timestamp" \in cols THEN vals.Timestamp ELSE {EmptyStamp}]

\* a population of files: which sets of columns they may have and which
\* texts each column may hold
Population(colsets, vals) == [colsets |-> colsets, vals |-> vals]

\* files with any subset of the four columns
Files ==
    Population(SUBSET Columns,
              [EventId   |-> {"E1", "E2"},
               SourceIP  |-> {"10.0.0.1", "10.0.0.2"},
               User      |-> {"root"},
               Timestamp |-> {<<"Jan", 1, 0, 10, 0>>, <<"not-a-date", 0, 0, 0, 0>>}])

\* files with the two filtered columns or one of them or none, some
\* addresses missing
FilterFiles ==
    Population(SUBSET {"EventId", "SourceIP"},
              [EventId   |-> {"E1", "E2"},
               SourceIP  |-> {"10.0.0.1", "10.0.0.2", EmptyField},
               User      |-> {EmptyField},
               Timestamp |-> {EmptyStamp}])

\* files with the two counted columns or one of them or none, some
\* addresses and users missing
KpiFiles ==
    Population(SUBSET {"SourceIP", "User"},
              [EventId   |-> {EmptyField},
               SourceIP  |-> {"10.0.0.1", "10.0.0.2", EmptyField},
               User      |-> {"root", "admin", EmptyField},
               Timestamp |-> {EmptyStamp}])

\* files with a SourceIP column or none, more addresses than the ranking keeps
RankFiles ==
    Population({{"SourceIP"}, {}},
              [EventId   |-> {EmptyField},
               SourceIP  |-> {"10.0.0.1", "10.0.0.2", "10.0.0.3", EmptyField},
               User      |-> {EmptyField},
               Timestamp |-> {EmptyStamp}])

\* files with a Timestamp column: texts that parse, in the same hour, in
\* adjacent hours, with empty hours between, on an hour boundary after
\* midnight, and texts that do not parse (bad day of month, no date at all,
\* empty field)
TimeFiles ==
    Population({{"Timestamp"}, {"Timestamp", "EventId"}},
              [EventId   |-> {"E1", "E2"},
               SourceIP  |-> {EmptyField},
               User      |-> {EmptyField},
               Timestamp |-> {<<"Jan", 1, 0, 10, 0>>, <<"Jan", 1, 0, 50, 0>>,
                              <<"Jan", 1, 1, 5, 0>>, <<"Jan", 2, 0, 0, 0>>,
                              <<"Feb", 30, 10, 0, 0>>, <<"not-a-date", 0, 0, 0, 0>>,
                              EmptyStamp}])

----------------------------------------------------------------------------
(* main(): every run of the script reads the uploaded file again and calls  *)
(* display_dashboard with the current state of the sidebar widgets.         *)

Shows(file, choice, choices, o) ==
    /\ uploaded_file = file
    /\ event_choice = choice
    /\ ip_choices = choices
    /\ df = o.df
    /\ df_filtered = o.df_filtered
    /\ warning = o.warning
    /\ metrics = o.metrics
    /\ top20 = o.top20
    /\ top10 = o.top10
    /\ attacks_by_time = o.attacks_by_time
    /\ info = o.info

\* the first run after the upload of a file of at most maxrows rows:
\* selectbox on "Tous", multiselect empty
FirstRun(files, maxrows) ==
    \E cs \in files.colsets : \E n \in 0..maxrows :
        \E rs \in [1..n -> FileRows(cs, files.vals)] :
            LET file == [columns |-> cs, rows |-> rs]
            IN \E o \in display_dashboard(read_csv(file), "Tous", {}) :
                   Shows(file, "Tous", {}, o)

\* the operator changes a widget and the script runs again
Rerun ==
    \E choice \in event_options(read_csv(uploaded_file)) :
        \E choices \in SUBSET ips_list(read_csv(uploaded_file)) :
            \E o \in display_dashboard(read_csv(uploaded_file), choice, choices) :
                /\ uploaded_file' = uploaded_file
                /\ event_choice' = choice
                /\ ip_choices' = choices
                /\ df' = o.df
                /\ df_filtered' = o.df_filtered
                /\ warning' = o.warning
                /\ metrics' = o.metrics
                /\ top20' = o.top20
                /\ top10' = o.top10
                /\ attacks_by_time' = o.attacks_by_time
                /\ info' = o.info

Init == FirstRun(Files, MaxRows)
InitFilter == FirstRun(FilterFiles, MaxFilterRows)
InitKpi == FirstRun(KpiFiles, MaxKpiRows)
InitRank == FirstRun(RankFiles, MaxRankRows)
InitTime == FirstRun(TimeFiles, MaxTimeRows)

Next == Rerun

Spec == Init /\ [][Next]_vars
SpecFilter == InitFilter /\ [][Next]_vars
SpecKpi == InitKpi /\ [][Next]_vars
SpecRank == InitRank /\ [][Next]_vars
SpecTime == InitTime /\ [][Next]_vars

----------------------------------------------------------------------------
(* Properties *)

\* view is the subsequence of rows, in the order of rows, of the rows whose
\* index is in K
IsSubsequenceAt(view, rows, K) ==
    /\ Len(view) = Cardinality(K)
    /\ \A i \in K : view[Cardinality({k \in K : k <= i})] = rows[i]

RowsKept(rows, Keeps(_)) == {i \in 1..Len(rows) : Keeps(rows[i])}

\* selections beyond the ones the widgets offer
AnyEventChoice == {"Tous", "E1", "E2", "E9", "nan"}
AnyIpChoices == SUBSET {"10.0.0.1", "10.9.9.9", "nan"}

EventPasses(r, e) == e = "Tous" \/ astype_str(r.EventId) = e
IpPasses(r, I) == I = {} \/ astype_str(r.SourceIP) \in I

IsFilteredView(view, R, e, I) ==
    LET Keeps(r) == EventPasses(r, e) /\ IpPasses(r, I)
    IN /\ IsSubsequenceAt(view.rows, R.rows, RowsKept(R.rows, Keeps))
       /\ Len(view.rows) <= Len(R.rows)
       /\ \A j \in 1..Len(view.rows) : \E i \in 1..Len(R.rows) : view.rows[j] = R.rows[i]

\* C1: with the EventId and SourceIP columns present, the filtered view is
\* the subsequence of the Record Set, in its order, of the rows that pass the
\* EventId selection (the sentinel "Tous" or the row's text) and the SourceIP
\* selection (empty or holding the row's text); never more rows, no new row.
C1_FilteredViewIsSubsequence ==
    ("EventId" \in df.columns /\ "SourceIP" \in df.columns) =>
        /\ IsFilteredView(df_filtered, df, event_choice, ip_choices)
        /\ \A e \in AnyEventChoice : \A I \in AnyIpChoices :
              IsFilteredView(apply_filters(df, e, I), df, e, I)

C1_Witness ==
    /\ "EventId" \in df.columns /\ "SourceIP" \in df.columns
    /\ event_choice # "Tous"
    /\ "nan" \in ip_choices
    /\ Len(df.rows) = 3
    /\ Len(df_filtered.rows) = 2
    /\ df_filtered.rows[1] # df_filtered.rows[2]

\* C2: a filter whose column is absent from the Record Set keeps every row
\* whatever its selection: the view is the one the other filter alone gives,
\* and with both columns absent it is the whole Record Set.
C2_MissingColumnPasses ==
    /\ "EventId" \notin df.columns =>
          /\ LET Keeps(r) == IpPasses(r, ip_choices)
             IN IsSubsequenceAt(df_filtered.rows, df.rows, RowsKept(df.rows, Keeps))
          /\ \A e \in AnyEventChoice : \A I \in AnyIpChoices :
                apply_filters(df, e, I) = apply_filters(df, "Tous", I)
    /\ "SourceIP" \notin df.columns =>
          /\ LET Keeps(r) == EventPasses(r, event_choice)
             IN IsSubsequenceAt(df_filtered.rows, df.rows, RowsKept(df.rows, Keeps))
          /\ \A e \in AnyEventChoice : \A I \in AnyIpChoices :
                apply_filters(df, e, I) = apply_filters(df, e, {})
    /\ ("EventId" \notin df.columns /\ "SourceIP" \notin df.columns) =>
          /\ df_filtered.rows = df.rows
          /\ \A e \in AnyEventChoice : \A I \in AnyIpChoices :
                apply_filters(df, e, I).rows = df.rows

C2_Witness ==
    /\ "EventId" \notin df.columns
    /\ "SourceIP" \in df.columns
    /\ ip_choices # {}
    /\ Len(df_filtered.rows) > 0
    /\ Len(df_filtered.rows) < Len(df.rows)

\* C3: the Record Set is never modified: after every run, with whatever
\* filters, and with the Timestamp parsing and the dropping of rows, it has
\* the rows of the loaded file, in the same order, with the same cells.
C3_RecordSetUnchanged == df = read_csv(uploaded_file)

C3_Witness ==
    /\ "Timestamp" \in df.columns
    /\ ip_choices # {}
    /\ Len(df_filtered.rows) < Len(df.rows)
    /\ attacks_by_time # <<>>
    /\ \E i \in 1..Len(df.rows) : strptime(df.rows[i].Timestamp) = NaT

\* C4, as claimed: when the selection narrows the view to zero rows, "no
\* results" is raised and the outputs are a Metric Set of zeros, empty
\* Rankings and an empty Time Series.
C4_EmptyViewShowsZeros ==
    (df.rows # <<>> /\ df_filtered.rows = <<>>) =>
        /\ warning
        /\ metrics = <<0, 0, 0>>
        /\ top20 = <<>> /\ top10 = <<>>
        /\ attacks_by_time = <<>>

\* C4, amended: an empty view raises "no results" and nothing else is shown:
\* no Metric Set at all (not one of zeros), no Ranking, no Time Series, no
\* "no temporal data" signal; and "no results" is raised for no other view.
C4_EmptyViewShowsNothing ==
    /\ df_filtered.rows = <<>> =>
          /\ warning
          /\ metrics = NotRendered
          /\ top20 = <<>> /\ top10 = <<>>
          /\ attacks_by_time = <<>>
          /\ ~info
    /\ warning => df_filtered.rows = <<>>

C4_Witness ==
    /\ df.rows # <<>>
    /\ event_choice # "Tous" /\ ip_choices # {}
    /\ df_filtered.rows = <<>>
    /\ warning

\* the texts of the non-missing cells of a column
DistinctTexts(rows, col) ==
    {astype_str(rows[i][col]) : i \in {j \in 1..Len(rows) : rows[j][col] # NaN}}

ExpectedMetrics(view) ==
    <<Len(view.rows),
      IF "SourceIP" \in view.columns
      THEN Cardinality(DistinctTexts(view.rows, "SourceIP")) ELSE 0,
      IF "User" \in view.columns
      THEN Cardinality(DistinctTexts(view.rows, "User")) ELSE 0>>

\* C5: the Metric Set of a view is its number of rows, its number of distinct
\* SourceIP texts among the rows with a SourceIP (0 without the column) and
\* the same for User; a missing value is not counted and no distinct count
\* exceeds the total.
C5_MetricSet ==
    /\ kpis(df_filtered) = ExpectedMetrics(df_filtered)
    /\ ~warning => metrics = ExpectedMetrics(df_filtered)
    /\ ExpectedMetrics(df_filtered)[2] <= ExpectedMetrics(df_filtered)[1]
    /\ ExpectedMetrics(df_filtered)[3] <= ExpectedMetrics(df_filtered)[1]

C5_Witness ==
    /\ ~warning
    /\ ip_choices # {}
    /\ metrics[1] = 3
    /\ metrics[2] = 2
    /\ metrics[3] = 1
    /\ \E i \in 1..3 : df_filtered.rows[i].SourceIP = NaN
    /\ \E i \in 1..3 : df_filtered.rows[i].User = NaN

CountRows(view, v) ==
    Cardinality({i \in 1..Len(view.rows) : view.rows[i].SourceIP = v})

\* r is a top-n ranking of the SourceIP values of the view, where values is
\* the set of values that compete for a place in it
IsRanking(r, n, view, values) ==
    /\ Len(r) <= n
    /\ \A k \in 1..Len(r) : r[k][2] = CountRows(view, r[k][1])
    /\ \A k \in 1..(Len(r) - 1) : r[k][2] >= r[k + 1][2]
    /\ \A v \in values \ {r[k][1] : k \in 1..Len(r)} :
          \A k \in 1..Len(r) : CountRows(view, v) <= r[k][2]
    /\ SumCounts(r) <= Len(view.rows)

AllValues(view) == {view.rows[i].SourceIP : i \in 1..Len(view.rows)}

\* C6, as claimed: the two rankings shown have at most 20 and 10 entries,
\* each with the number of rows of its value, counts non-increasing, no value
\* left out with a count greater than a value included, counts summing to at
\* most the total; the missing value counted as a value like the others.
C6_NoValueLeftOutOutranks ==
    ("SourceIP" \in df_filtered.columns /\ ~warning) =>
        /\ IsRanking(top20, Top20, df_filtered, AllValues(df_filtered))
        /\ IsRanking(top10, Top10, df_filtered, AllValues(df_filtered))

\* C6, amended: the same, among the non-missing values: rows whose SourceIP
\* is missing are in no entry of the ranking, however many they are.  It holds
\* of the two rankings shown and of the first n entries for every smaller n;
\* without the SourceIP column both rankings are empty.
C6_Ranking ==
    /\ "SourceIP" \notin df_filtered.columns => (top20 = <<>> /\ top10 = <<>>)
    /\ ("SourceIP" \in df_filtered.columns /\ ~warning) =>
          /\ IsRanking(top20, Top20, df_filtered, AllValues(df_filtered) \ {NaN})
          /\ IsRanking(top10, Top10, df_filtered, AllValues(df_filtered) \ {NaN})
          /\ \A k \in 1..Len(top20) : top20[k][1] # NaN
          /\ \A n \in 1..MaxN :
                \A vc \in value_counts(column(df_filtered, "SourceIP")) :
                    IsRanking(head(vc, n), n, df_filtered,
                              AllValues(df_filtered) \ {NaN})

C6_Witness ==
    /\ ~warning
    /\ "SourceIP" \in df_filtered.columns
    /\ Len(top20) > MaxN
    /\ top20[1][2] > top20[2][2]
    /\ top10 = top20

\* the rows of the view whose Timestamp parses under "%b %d %H:%M:%S"
ParsedRows ==
    {i \in 1..Len(df_filtered.rows) :
        "Timestamp" \in df_filtered.columns
        /\ IsDatetime(strptime(df_filtered.rows[i].Timestamp))}

TimeOf(i) == strptime(df_filtered.rows[i].Timestamp)[2]

\* the time of every parsed row of the view
ParsedTimes == [i \in ParsedRows |-> TimeOf(i)]

\* the parsed rows, with times T, in the hour that starts at s
InHour(T, s) == {i \in DOMAIN T : s <= T[i] /\ T[i] < s + SecondsPerHour}

HourOf(t) == t - (t % SecondsPerHour)

\* C7: with a Timestamp column, the bucket counts sum to the number of rows
\* whose Timestamp parses; a row that does not parse is in no bucket and
\* raises no error.
C7_CountsSumToParsedRows ==
    "Timestamp" \in df_filtered.columns =>
        LET T == ParsedTimes
        IN /\ SumCounts(attacks_by_time) = Cardinality(DOMAIN T)
           /\ \A k \in 1..Len(attacks_by_time) :
                 attacks_by_time[k][2] = Cardinality(InHour(T, attacks_by_time[k][1]))

C7_Witness ==
    /\ ~warning
    /\ event_choice # "Tous"
    /\ Cardinality(ParsedRows) = 2
    /\ Len(df_filtered.rows) = 3
    /\ SumCounts(attacks_by_time) = 2

NoTemporalData ==
    "Timestamp" \notin df_filtered.columns \/ ParsedRows = {}

\* C8, as claimed: in a view that is shown, without the Timestamp column or
\* with no row that parses, the Time Series is empty and "no temporal data"
\* is raised, in both cases.
C8_SignalInBothCases ==
    (~warning /\ NoTemporalData) => (attacks_by_time = <<>> /\ info)

\* C8, amended: in both cases the Time Series is empty and nothing fails, but
\* "no temporal data" is raised only when the column is present and no row
\* parses; without the column the time series is left out with no signal.
C8_SignalOnlyWhenColumnPresent ==
    ~warning =>
        /\ NoTemporalData => attacks_by_time = <<>>
        /\ info <=> ("Timestamp" \in df_filtered.columns /\ ParsedRows = {})

C8_Witness ==
    /\ ~warning
    /\ "Timestamp" \in df_filtered.columns
    /\ Len(df_filtered.rows) = 2
    /\ ParsedRows = {}
    /\ info

\* C9: the Time Series is in chronological order with strictly increasing
\* bucket starts, each on a calendar-hour boundary, and every parsed event
\* at t is counted in the one bucket with start <= t < start + 1 hour.
C9_BucketsAlignedIncreasing ==
    LET T == ParsedTimes
    IN /\ \A k \in 1..Len(attacks_by_time) :
             /\ attacks_by_time[k][1] % SecondsPerHour = 0
             /\ attacks_by_time[k][2] = Cardinality(InHour(T, attacks_by_time[k][1]))
       /\ \A k \in 1..(Len(attacks_by_time) - 1) :
             attacks_by_time[k][1] < attacks_by_time[k + 1][1]
       /\ ~warning =>
             \A i \in DOMAIN T :
                 Cardinality({k \in 1..Len(attacks_by_time) :
                                i \in InHour(T, attacks_by_time[k][1])}) = 1

C9_Witness ==
    /\ ~warning
    /\ Len(attacks_by_time) >= 2
    /\ attacks_by_time[1][2] = 2
    /\ \E i \in ParsedRows : TimeOf(i) % SecondsPerHour = 0
    /\ \E i \in ParsedRows : TimeOf(i) % SecondsPerHour # 0

\* C10: when a row parses, the Time Series has one entry for every hour from
\* the hour of the earliest parsed event to the hour of the latest, one hour
\* apart, and an hour with no event is there with count 0.
C10_CompleteHourlyAxis ==
    (~warning /\ ParsedRows # {}) =>
        LET T == ParsedTimes
            lo == HourOf(SetMin({T[i] : i \in DOMAIN T}))
            hi == HourOf(SetMax({T[i] : i \in DOMAIN T}))
            n == Len(attacks_by_time)
        IN /\ n = (hi - lo) \div SecondsPerHour + 1
           /\ attacks_by_time[1][1] = lo
           /\ attacks_by_time[n][1] = hi
           /\ \A k \in 1..(n - 1) :
                 attacks_by_time[k + 1][1] = attacks_by_time[k][1] + SecondsPerHour
           /\ \A k \in 1..n :
                 InHour(T, attacks_by_time[k][1]) = {} => attacks_by_time[k][2] = 0

C10_Witness ==
    /\ ~warning
    /\ Len(attacks_by_time) > Cardinality(ParsedRows)
    /\ Cardinality(ParsedRows) >= 2
    /\ \E k \in 1..Len(attacks_by_time) : attacks_by_time[k][2] = 0

====
